---- MODULE Spec2Model ----
(***************************************************************************)
(* Model of src/game.py: the condition evaluator (check_conditions), the   *)
(* action catalog filter (get_available_actions) and the turn-based combat *)
(* loop (turn_based_combat) with the save it writes on return.             *)
(*                                                                         *)
(* Strings read from input() are sequences of one-character strings so     *)
(* that strip(), isdigit() and int() are computed, not assumed.  The       *)
(* character "sup2" stands for U+00B2 (superscript two), a character for   *)
(* which str.isdigit() is True and int() raises ValueError.                *)
(***************************************************************************)
EXTENDS Integers, Sequences, FiniteSets, TLC

VARIABLES
    player,      \* the Player object: name, hp, base_attack, defense, inventory, weapon, missions
    enemy,       \* the Enemy object: name, hp, attack, defense
    Actions,     \* ACTIONS: the action catalog loaded from actions.json
    pc,          \* where the program is: which input() it blocks on, or how the call ended
    available,   \* local of turn_based_combat / result of get_available_actions
    category,    \* local of turn_based_combat: the category chosen at the main prompt
    inp,         \* the line the last input() call returned
    msg,         \* the CONFIG["combat"] messages printed by the last step, in order
    mid,         \* player and enemy right after the last step's action, before the loop exit code
    save,        \* content of save.json
    start,       \* player and enemy at the call of turn_based_combat
    defends,     \* number of defend moves resolved in this encounter
    conditions,  \* argument of the last check_conditions call made on its own
    result,      \* its return value
    PLAYER_TEMPLATE,  \* the player template loaded from player.json
    TUTORIAL,    \* the tutorial script loaded from tutorial.json
    is_new,      \* local of main: whether start_menu created a new player
    caller,      \* the caller turn_based_combat or equip_menu returns to
    wrote        \* whether the last step called save_game

vars == <<player, enemy, Actions, pc, available, category, inp, msg, mid, save,
          start, defends, conditions, result, PLAYER_TEMPLATE, TUTORIAL, is_new,
          caller, wrote>>

------------------------------------------------------------------------------
(* Bounds of the model *)

\* defend moves the player may make in one encounter
MaxDefends == 2
\* "defense" draws the enemy may make in one encounter
MaxEnemyDefends == 3
\* categories of a generated catalog
MaxCats == 2
\* keys of a generated condition set
MaxKeys == 3

------------------------------------------------------------------------------
(* JSON values, with Python's == on them *)

JNull == [t |-> "null", s |-> "", n |-> 0]
JTrue == [t |-> "bool", s |-> "", n |-> 1]
JFalse == [t |-> "bool", s |-> "", n |-> 0]
JStr(x) == [t |-> "str", s |-> x, n |-> 0]
JInt(x) == [t |-> "int", s |-> "", n |-> x]

\* Python ==: bool is a subclass of int (True == 1); str, None compare by value
PyEq(a, b) ==
    IF a.t \in {"bool", "int"} /\ b.t \in {"bool", "int"}
    THEN a.n = b.n
    ELSE a = b

Max(a, b) == IF a >= b THEN a ELSE b

------------------------------------------------------------------------------
(* str.strip, str.isdigit, int *)

Whitespace == {" "}
DecimalChars == {"0", "1", "2", "3", "4", "5", "6", "7", "8", "9"}
\* str.isdigit() also accepts digits that are not decimals, e.g. U+00B2
DigitChars == DecimalChars \cup {"sup2"}

RECURSIVE lstrip(_)
lstrip(s) == IF s # <<>> /\ Head(s) \in Whitespace THEN lstrip(Tail(s)) ELSE s

RECURSIVE rstrip(_)
rstrip(s) ==
    IF s # <<>> /\ s[Len(s)] \in Whitespace
    THEN rstrip(SubSeq(s, 1, Len(s) - 1))
    ELSE s

strip(s) == rstrip(lstrip(s))

isdigit(s) == s # <<>> /\ \A i \in 1..Len(s) : s[i] \in DigitChars

digit_value(c) ==
    CASE c = "0" -> 0 [] c = "1" -> 1 [] c = "2" -> 2 [] c = "3" -> 3
      [] c = "4" -> 4 [] c = "5" -> 5 [] c = "6" -> 6 [] c = "7" -> 7
      [] c = "8" -> 8 [] c = "9" -> 9

\* int(s) raises ValueError unless s is a decimal literal; on the strings that
\* pass isdigit() that is: unless every character is a decimal digit
int_raises(s) == s = <<>> \/ \E i \in 1..Len(s) : s[i] \notin DecimalChars

RECURSIVE int_value(_)
int_value(s) ==
    IF s = <<>> THEN 0
    ELSE 10 * int_value(SubSeq(s, 1, Len(s) - 1)) + digit_value(s[Len(s)])

------------------------------------------------------------------------------
(* Player *)

\* player.weapon is a reference to an element of player.inventory, or None:
\* the model holds the element's index, NoWeapon for None
NoWeapon == 0

has_weapon(p) == p.weapon # NoWeapon

weapon_item(p) == p.inventory[p.weapon]

\* Player.attack
attack(p) ==
    LET bonus == IF has_weapon(p) THEN weapon_item(p).attack_bonus ELSE 0
    IN  p.base_attack + bonus

\* to_dict that writes no weapon
MutToDictDropsWeapon(p) ==
    [name |-> p.name,
     stats |-> [hp |-> p.hp, base_attack |-> p.base_attack, defense |-> p.defense],
     inventory |-> p.inventory,
     equipment |-> [weapon |-> JNull],
     missions |-> p.missions]

\* Player.to_dict
to_dict(p) ==
    [name |-> p.name,
     stats |-> [hp |-> p.hp, base_attack |-> p.base_attack, defense |-> p.defense],
     inventory |-> p.inventory,
     equipment |-> [weapon |-> IF has_weapon(p) THEN JStr(weapon_item(p).name) ELSE JNull],
     missions |-> p.missions]

\* save_game left out: save.json keeps what it held
MutSaveSkipped(p) == save

\* save_game(player): the new content of save.json; json.dump then json.load
\* give back the ints, strings, None, lists and string-keyed dicts of to_dict
save_game(p) == to_dict(p)

\* player.missions.get("current")
missions_get_current(p) ==
    IF "current" \in DOMAIN p.missions THEN p.missions["current"] ELSE JNull

------------------------------------------------------------------------------
(* check_conditions: conditions is the dict's items in iteration order *)

\* condition_fails with the final else dropped: an unhandled key is skipped
MutUnknownKeySkipped(p, key, value) ==
    IF key = "weapon"
    THEN \/ value = JTrue /\ ~has_weapon(p)
         \/ value.t = "str" /\ (~has_weapon(p) \/ weapon_item(p).name # value.s)
    ELSE IF key = "has_item"
    THEN ~\E i \in 1..Len(p.inventory) : PyEq(JStr(p.inventory[i].name), value)
    ELSE IF key = "mission"
    THEN ~PyEq(missions_get_current(p), value)
    ELSE FALSE

\* one pass of the loop body for (key, value): TRUE iff it returns False
condition_fails(p, key, value) ==
    IF key = "weapon"
    THEN \/ value = JTrue /\ ~has_weapon(p)
         \/ value.t = "str" /\ (~has_weapon(p) \/ weapon_item(p).name # value.s)
    ELSE IF key = "has_item"
    THEN ~\E i \in 1..Len(p.inventory) : PyEq(JStr(p.inventory[i].name), value)
    ELSE IF key = "mission"
    THEN ~PyEq(missions_get_current(p), value)
    ELSE TRUE

RECURSIVE check_from(_, _, _)
check_from(p, conds, i) ==
    IF i > Len(conds) THEN TRUE
    ELSE IF condition_fails(p, conds[i].key, conds[i].value) THEN FALSE
    ELSE check_from(p, conds, i + 1)

\* check_conditions with "return True" inside the loop: only the first key decides
MutFirstKeyDecides(p, conds) ==
    conds = <<>> \/ ~condition_fails(p, conds[1].key, conds[1].value)

check_conditions(p, conds) == check_from(p, conds, 1)

------------------------------------------------------------------------------
(* get_available_actions: a category is [key, name, conditions, options], an  *)
(* option is [name, conditions]; a missing "conditions" is the empty sequence *)
(* and a missing "options" the empty sequence, as the .get defaults make them *)

\* the inner loop: opts, built by appending the options whose conditions pass
RECURSIVE filter_options(_, _, _)
filter_options(p, options, i) ==
    IF i > Len(options) THEN <<>>
    ELSE IF check_conditions(p, options[i].conditions)
    THEN <<options[i]>> \o filter_options(p, options, i + 1)
    ELSE filter_options(p, options, i + 1)

\* keep_category without the test: a category emptied by the filter is kept
MutKeepEmptied(cat, opts) == TRUE

\* "if opts or not cat.get('options')"
keep_category(cat, opts) == opts # <<>> \/ cat.options = <<>>

\* the outer loop over the catalog from position i on
RECURSIVE filter_from(_, _, _)
filter_from(p, cats, i) ==
    IF i > Len(cats) THEN <<>>
    ELSE LET cat == cats[i]
             opts == filter_options(p, cat.options, 1)
         IN  IF ~check_conditions(p, cat.conditions)
             THEN filter_from(p, cats, i + 1)
             ELSE IF keep_category(cat, opts)
             THEN <<[cat EXCEPT !.options = opts]>> \o filter_from(p, cats, i + 1)
             ELSE filter_from(p, cats, i + 1)

get_available_actions(p) == filter_from(p, Actions, 1)

\* new_cat = cat in place of dict(cat): the filtered options land in the catalog
MutAliasedCategory(cat, opts) == [cat EXCEPT !.options = opts]

\* the catalog's entry after "new_cat = dict(cat); new_cat['options'] = opts":
\* the assignment goes to the copy
category_after(cat, opts) == cat

\* ACTIONS as a call of get_available_actions leaves it
catalog_after(p, cats) ==
    [i \in 1..Len(cats) |->
        LET cat == cats[i]
            opts == filter_options(p, cat.options, 1)
        IN  IF check_conditions(p, cat.conditions) /\ keep_category(cat, opts)
            THEN category_after(cat, opts)
            ELSE cat]

------------------------------------------------------------------------------
(* Content and inputs of the combat specification *)

Stick == [name |-> "stick", attack_bonus |-> 5, defense_bonus |-> 0]
Potion == [name |-> "potion", attack_bonus |-> 0, defense_bonus |-> 0]

Cond(k, v) == [key |-> k, value |-> v]
Opt(nm, conds) == [name |-> nm, conditions |-> conds]
Cat(k, nm, conds, opts) == [key |-> k, name |-> nm, conditions |-> conds, options |-> opts]

\* an actions.json: the five keys the combat loop handles, a key it does not
\* handle, and a category whose options are all gated by a mission
CombatCatalog ==
    << Cat("attack", "Attack", <<>>,
           << Opt("Punch", <<>>), Opt("Swing", <<Cond("weapon", JStr("stick"))>>) >>),
       Cat("defend", "Defend", <<>>, <<>>),
       Cat("skill", "Skill", <<Cond("weapon", JTrue)>>, << Opt("Focus", <<>>) >>),
       Cat("item", "Item", <<Cond("has_item", JStr("potion"))>>, <<>>),
       Cat("special", "Special", <<>>, << Opt("Raid", <<Cond("mission", JStr("m1"))>>) >>),
       Cat("escape", "Escape", <<>>, <<>>),
       Cat("taunt", "Taunt", <<>>, <<>>) >>

\* lines input() may return
Lines ==
    { <<"1">>, <<"2">>, <<"3">>, <<"4">>, <<"5">>, <<"6">>, <<"7">>, <<"0">>,
      <<>>, <<"x">>, <<" ", "2", " ">>, <<"sup2">> }

\* the Player objects an encounter is entered with: hp and defense as a
\* template or a save may give them (hp 0: the loop is never entered)
BareHanded == [inventory |-> <<>>, weapon |-> NoWeapon]
Armed == [inventory |-> <<Stick, Potion>>, weapon |-> 1]

NewPlayer(h, d, g) ==
    [name |-> "AB-12", hp |-> h, base_attack |-> 10, defense |-> d,
     inventory |-> g.inventory, weapon |-> g.weapon,
     missions |-> ("completed" :> JInt(0))]

CombatPlayers ==
    { NewPlayer(12, 5, BareHanded), NewPlayer(12, 0, Armed), NewPlayer(0, 5, BareHanded) }

\* Enemy(name, hp, attack, defense): the two enemies the program constructs
Enemy(nm, hp, atk, def) == [name |-> nm, hp |-> hp, attack |-> atk, defense |-> def]
TrainingEnemy == Enemy("instructor", 30, 5, 2)
MissionEnemy == Enemy("mission_enemy", 50, 10, 3)

NoCategory == Cat("", "", <<>>, <<>>)
NoSave == [name |-> "", stats |-> [hp |-> 0, base_attack |-> 0, defense |-> 0],
           inventory |-> <<>>, equipment |-> [weapon |-> JNull],
           missions |-> ("absent" :> JNull)]

\* a tutorial.json: the stick of step 0, the action words step 0 accepts (a
\* word is held as one element of the line), whether step 3 runs the demo
Tutorial(demo) == [stick_item |-> Stick, actions |-> {<<"pickup">>}, demo |-> demo]

\* what the variables of main hold when a function is run on its own
Standalone ==
    /\ PLAYER_TEMPLATE = NoSave
    /\ TUTORIAL = Tutorial(FALSE)
    /\ is_new = FALSE
    /\ caller = "none"
    /\ wrote = FALSE

------------------------------------------------------------------------------
(* turn_based_combat *)

\* the draw of the enemy turn
EnemyChoices == <<"attack", "attack", "attack", "defense">>

\* player_damage without the clamp at 0
MutPlayerDamageUnclamped(p, e) == attack(p) - e.defense

\* damage of the player's attack move
player_damage(p, e) == Max(attack(p) - e.defense, 0)

\* enemy_damage against the base defense instead of the current one
MutEnemyDamageIgnoresDefend(p, e) == Max(e.attack - 5, 0)

\* damage of the enemy's attack
enemy_damage(p, e) == Max(e.attack - p.defense, 0)

\* player_defend that sets the defended value instead of adding to it
MutDefendNotStacking(p) == [p EXCEPT !.defense = 10]

\* the defend move
player_defend(p) == [p EXCEPT !.defense = @ + 5]

\* the enemy's defense action
enemy_defend(e) == [e EXCEPT !.defense = @ + 3]

\* reset_defense left out
MutNoReset(p) == p

\* the statement after the loop
reset_defense(p) == [p EXCEPT !.defense = 5]

\* "not s.isdigit() or not (1 <= int(s) <= n)" for a stripped line s:
\* "raise" when int() raises, else whether the selection is refused
selection(s, n) ==
    IF ~isdigit(s) THEN "invalid"
    ELSE IF int_raises(s) THEN "raise"
    ELSE IF ~(1 <= int_value(s) /\ int_value(s) <= n) THEN "invalid"
    ELSE "ok"

\* assignment of the whole state by one step; the function's last statement
\* saves the player when the step returns from it
Step(newpc, p, e, avail, cat, line, msgs, snap, nd) ==
    /\ pc' = newpc
    /\ player' = p
    /\ enemy' = e
    /\ available' = avail
    /\ category' = cat
    /\ inp' = line
    /\ msg' = msgs
    /\ mid' = snap
    /\ defends' = nd
    /\ save' = IF newpc = "returned" THEN save_game(p) ELSE save
    /\ wrote' = (newpc = "returned")
    /\ Actions' = IF newpc = "prompt_main" THEN catalog_after(p, Actions) ELSE Actions
    /\ UNCHANGED <<start, conditions, result, PLAYER_TEMPLATE, TUTORIAL, is_new, caller>>

\* leaving the loop (its condition false, or break): reset, save, return
Return(p, e, cat, line, msgs, snap, nd) ==
    Step("returned", reset_defense(p), e, available, cat, line, msgs, snap, nd)

\* the loop head: the while condition, then the list of available actions.
\* The local category is dead here (the next iteration assigns it before any
\* read), so the model forgets it.
LoopHead(p, e, cat, line, msgs, snap, nd) ==
    IF p.hp > 0 /\ e.hp > 0
    THEN Step("prompt_main", p, e, get_available_actions(p), NoCategory, line, msgs,
              snap, nd)
    ELSE Return(p, e, cat, line, msgs, snap, nd)

\* enemy_down never noticed before the enemy turn
MutEnemyDownUnnoticed(e) == FALSE

\* after the player's action: the enemy_defeated test, else on to the enemy turn
enemy_down(e) == e.hp <= 0

AfterAction(p, e, line, cat, msgs, nd) ==
    IF enemy_down(e)
    THEN Return(p, e, cat, line, msgs \o <<"enemy_defeated">>,
                [player |-> p, enemy |-> e], nd)
    ELSE Step("enemy_turn", p, e, available, cat, line,
              msgs \o <<"enemy_turn">>, [player |-> p, enemy |-> e], nd)

\* escapes with the branch missing: the key falls to the final else
MutEscapeUnhandled(key) == FALSE

\* the branch that breaks out of the loop without an enemy turn
escapes(key) == key = "escape"

\* Resolve with the attack's damage pasted into the skill branch
MutResolveSkillHits(cat, line) ==
    LET here == [player |-> player, enemy |-> enemy] IN
    IF cat.key = "attack" \/ cat.key = "skill"
    THEN AfterAction(player, [enemy EXCEPT !.hp = @ - player_damage(player, enemy)],
                     line, cat,
                     IF cat.key = "attack" THEN <<"player_attack">> ELSE <<"player_skill">>,
                     defends)
    ELSE IF cat.key = "defend"
    THEN /\ defends < MaxDefends
         /\ AfterAction(player_defend(player), enemy, line, cat, <<"player_defend">>,
                        defends + 1)
    ELSE IF cat.key = "item"
    THEN AfterAction(player, enemy, line, cat, <<"player_item">>, defends)
    ELSE IF escapes(cat.key)
    THEN Return(player, enemy, cat, line, <<"player_escape">>, here, defends)
    ELSE LoopHead(player, enemy, cat, line, <<"player_invalid">>, here, defends)

\* the dispatch on category["key"]
Resolve(cat, line) ==
    LET here == [player |-> player, enemy |-> enemy] IN
    IF cat.key = "attack"
    THEN AfterAction(player, [enemy EXCEPT !.hp = @ - player_damage(player, enemy)],
                     line, cat, <<"player_attack">>, defends)
    ELSE IF cat.key = "defend"
    THEN /\ defends < MaxDefends
         /\ AfterAction(player_defend(player), enemy, line, cat, <<"player_defend">>,
                        defends + 1)
    ELSE IF cat.key = "skill"
    THEN AfterAction(player, enemy, line, cat, <<"player_skill">>, defends)
    ELSE IF cat.key = "item"
    THEN AfterAction(player, enemy, line, cat, <<"player_item">>, defends)
    ELSE IF escapes(cat.key)
    THEN Return(player, enemy, cat, line, <<"player_escape">>, here, defends)
    ELSE LoopHead(player, enemy, cat, line, <<"player_invalid">>, here, defends)

\* the call: the messages before the loop, then the loop head
Call ==
    /\ pc = "call"
    /\ LoopHead(player, enemy, category, inp, <<"start_text">>,
                [player |-> player, enemy |-> enemy], defends)

\* input(cfg["prompt_main"]) returns line
ChooseCategory(line) ==
    /\ pc = "prompt_main"
    /\ LET action_choice == strip(line)
           verdict == selection(action_choice, Len(available))
           here == [player |-> player, enemy |-> enemy]
       IN  IF verdict = "invalid"
           THEN LoopHead(player, enemy, category, line, <<"player_invalid">>, here, defends)
           ELSE IF verdict = "raise"
           THEN Step("raised", player, enemy, available, category, line, <<>>, here, defends)
           ELSE LET chosen == available[int_value(action_choice)]
                IN  IF chosen.options # <<>>
                    THEN Step("prompt_sub", player, enemy, available, chosen, line,
                              <<>>, here, defends)
                    ELSE Resolve(chosen, line)

\* input(cfg["prompt_sub"]) returns line
ChooseMove(line) ==
    /\ pc = "prompt_sub"
    /\ LET move_choice == strip(line)
           verdict == selection(move_choice, Len(category.options))
           here == [player |-> player, enemy |-> enemy]
       IN  IF verdict = "invalid"
           THEN LoopHead(player, enemy, category, line, <<"player_invalid">>, here, defends)
           ELSE IF verdict = "raise"
           THEN Step("raised", player, enemy, available, category, line, <<>>, here, defends)
           ELSE Resolve(category, line)

\* random.choice returns EnemyChoices[i]
EnemyTurn(i) ==
    /\ pc = "enemy_turn"
    /\ LET enemy_action == EnemyChoices[i]
           p == IF enemy_action = "attack"
                THEN [player EXCEPT !.hp = @ - enemy_damage(player, enemy)]
                ELSE player
           e == IF enemy_action = "attack" THEN enemy ELSE enemy_defend(enemy)
           printed == IF enemy_action = "attack" THEN <<"enemy_attack">>
                      ELSE <<"enemy_defend">>
           snap == [player |-> p, enemy |-> e]
       IN  /\ enemy_action = "defense" =>
                  enemy.defense < start.enemy.defense + 3 * MaxEnemyDefends
           /\ IF p.hp <= 0
              THEN Return(p, e, category, inp, printed \o <<"player_defeated">>, snap,
                          defends)
              ELSE LoopHead(p, e, category, inp, printed, snap, defends)

Init ==
    /\ player \in CombatPlayers
    /\ enemy \in {TrainingEnemy, MissionEnemy}
    /\ Actions = CombatCatalog
    /\ pc = "call"
    /\ available = <<>>
    /\ category = NoCategory
    /\ inp = <<>>
    /\ msg = <<>>
    /\ mid = [player |-> player, enemy |-> enemy]
    /\ save = NoSave
    /\ start = [player |-> player, enemy |-> enemy]
    /\ defends = 0
    /\ conditions = <<>>
    /\ result = TRUE
    /\ Standalone

Next ==
    \/ Call
    \/ \E line \in Lines : ChooseCategory(line)
    \/ \E line \in Lines : ChooseMove(line)
    \/ \E i \in 1..4 : EnemyTurn(i)

Spec == Init /\ [][Next]_vars

------------------------------------------------------------------------------
(* check_conditions on its own: any player, any condition set *)

Sword == [name |-> "sword", attack_bonus |-> 8, defense_bonus |-> 0]

CondPairs ==
    { Cond("weapon", v) : v \in {JTrue, JFalse, JStr("stick"), JStr("sword")} }
      \cup { Cond("has_item", v) : v \in {JStr("potion"), JStr("key")} }
      \cup { Cond("mission", v) : v \in {JStr("m1"), JNull} }
      \cup { Cond("level", JInt(3)) }

\* a dict has each key once; its items come in insertion order
CondSets ==
    { s \in UNION { [1..n -> CondPairs] : n \in 0..MaxKeys } :
        \A i, j \in 1..Len(s) : i # j => s[i].key # s[j].key }

CondGear == { BareHanded, Armed, [inventory |-> <<Stick, Sword>>, weapon |-> 2] }
CondMissions ==
    { ("completed" :> JInt(0)),
      ("completed" :> JInt(0)) @@ ("current" :> JStr("m1")),
      ("completed" :> JInt(0)) @@ ("current" :> JNull) }

CondPlayers ==
    { [NewPlayer(100, 5, g) EXCEPT !.missions = m] : g \in CondGear, m \in CondMissions }

InitCond ==
    /\ player \in CondPlayers
    /\ conditions \in CondSets
    /\ pc = "cond_call"
    /\ result = FALSE
    /\ enemy = TrainingEnemy
    /\ Actions = <<>>
    /\ available = <<>>
    /\ category = NoCategory
    /\ inp = <<>>
    /\ msg = <<>>
    /\ mid = [player |-> player, enemy |-> enemy]
    /\ save = NoSave
    /\ start = [player |-> player, enemy |-> enemy]
    /\ defends = 0
    /\ Standalone

Evaluate ==
    /\ pc = "cond_call"
    /\ result' = check_conditions(player, conditions)
    /\ pc' = "cond_done"
    /\ UNCHANGED <<player, enemy, Actions, available, category, inp, msg, mid, save,
                   start, defends, conditions, PLAYER_TEMPLATE, TUTORIAL, is_new,
                   caller, wrote>>

NextCond == Evaluate

SpecCond == InitCond /\ [][NextCond]_vars

------------------------------------------------------------------------------
(* get_available_actions on its own: any player, any catalog *)

CatNames == <<"c1", "c2", "c3", "c4">>
OptNames == <<"o1", "o2">>

\* conditions an entry may carry: none, one that depends on the player, one
\* with an unhandled key
EntryConds == { <<>>, <<Cond("weapon", JTrue)>>, <<Cond("level", JInt(3))>> }
CategoryConds == { <<>>, <<Cond("weapon", JTrue)>> }

OptionLists ==
    { [j \in 1..Len(cs) |-> Opt(OptNames[j], cs[j])] :
        cs \in UNION { [1..n -> EntryConds] : n \in 0..Len(OptNames) } }

Catalogs ==
    { [i \in 1..Len(shape) |->
          Cat("attack", CatNames[i], shape[i].conditions, shape[i].options)] :
        shape \in UNION { [1..n -> [conditions : CategoryConds, options : OptionLists]] :
                            n \in 0..MaxCats } }

InitFilter ==
    /\ player \in { NewPlayer(100, 5, BareHanded), NewPlayer(100, 5, Armed) }
    /\ Actions \in Catalogs
    /\ pc = "filter_call"
    /\ available = <<>>
    /\ enemy = TrainingEnemy
    /\ category = NoCategory
    /\ inp = <<>>
    /\ msg = <<>>
    /\ mid = [player |-> player, enemy |-> enemy]
    /\ save = NoSave
    /\ start = [player |-> player, enemy |-> enemy]
    /\ defends = 0
    /\ conditions = <<>>
    /\ result = TRUE
    /\ Standalone

\* one call; the program calls it once per round, so a second call follows
Filter ==
    /\ pc \in {"filter_call", "filter_done"}
    /\ available' = get_available_actions(player)
    /\ Actions' = catalog_after(player, Actions)
    /\ pc' = IF pc = "filter_call" THEN "filter_done" ELSE "filter_again"
    /\ UNCHANGED <<player, enemy, category, inp, msg, mid, save, start,
                   defends, conditions, result, PLAYER_TEMPLATE, TUTORIAL, is_new,
                   caller, wrote>>

NextFilter == Filter

SpecFilter == InitFilter /\ [][NextFilter]_vars

------------------------------------------------------------------------------
(* The whole program: main with start_menu, training_session, equip_menu and
   mission_office, and turn_based_combat as above *)

\* missions accepted in one run
MaxMissions == 1

\* {}
EmptyDict == [k \in {} |-> JNull]

\* Item(i["name"], i.get("attack_bonus", 0), i.get("defense_bonus", 0))
Item(i) ==
    [name |-> i.name,
     attack_bonus |-> IF "attack_bonus" \in DOMAIN i THEN i.attack_bonus ELSE 0,
     defense_bonus |-> IF "defense_bonus" \in DOMAIN i THEN i.defense_bonus ELSE 0]

\* first_named without the search: the first item is taken for any name
MutWeaponUnchecked(inventory, weapon_name, i) ==
    IF weapon_name = JNull THEN NoWeapon ELSE 1

\* next((item for item in self.inventory if item.name == weapon_name), None),
\* from position i on
RECURSIVE first_named(_, _, _)
first_named(inventory, weapon_name, i) ==
    IF i > Len(inventory) THEN NoWeapon
    ELSE IF PyEq(JStr(inventory[i].name), weapon_name) THEN i
    ELSE first_named(inventory, weapon_name, i + 1)

\* Player.__init__(state); generated is what generate_code_name() returns
Player(state, generated) ==
    LET stats == IF "stats" \in DOMAIN state THEN state.stats ELSE EmptyDict
        inventory == IF "inventory" \in DOMAIN state
                     THEN [i \in 1..Len(state.inventory) |-> Item(state.inventory[i])]
                     ELSE <<>>
        equipment == IF "equipment" \in DOMAIN state THEN state.equipment ELSE EmptyDict
        weapon_name == IF "weapon" \in DOMAIN equipment THEN equipment.weapon ELSE JNull
    IN  [name |-> IF "name" \in DOMAIN state /\ state.name # "" THEN state.name
                  ELSE generated,
         hp |-> IF "hp" \in DOMAIN stats THEN stats.hp ELSE 100,
         base_attack |-> IF "base_attack" \in DOMAIN stats THEN stats.base_attack ELSE 10,
         defense |-> IF "defense" \in DOMAIN stats THEN stats.defense ELSE 5,
         inventory |-> inventory,
         weapon |-> first_named(inventory, weapon_name, 1),
         missions |-> IF "missions" \in DOMAIN state THEN state.missions ELSE EmptyDict]

\* str.lower on the characters of the model's lines
lower(s) == [i \in 1..Len(s) |-> IF s[i] = "Y" THEN "y" ELSE IF s[i] = "N" THEN "n" ELSE s[i]]

\* player.missions.get("completed", 0)
missions_get_completed(p) ==
    IF "completed" \in DOMAIN p.missions THEN p.missions["completed"].n ELSE 0

\* the count after a mission that ends with player.hp <= 0 is counted as well
MutDefeatCounts(p) ==
    [k \in DOMAIN p.missions \cup {"completed"} |->
        IF k = "completed" THEN JInt(missions_get_completed(p) + 1) ELSE p.missions[k]]

\* player.missions after the outcome of an accepted mission (lines 427-432)
missions_after(p) ==
    IF p.hp <= 0 THEN p.missions
    ELSE [k \in DOMAIN p.missions \cup {"completed"} |->
            IF k = "completed" THEN JInt(missions_get_completed(p) + 1)
            ELSE p.missions[k]]

\* before start_menu returns there is no Player, and no Enemy outside a fight
NoPlayer ==
    [name |-> "", hp |-> 0, base_attack |-> 0, defense |-> 0, inventory |-> <<>>,
     weapon |-> NoWeapon, missions |-> EmptyDict]
NoEnemy == Enemy("", 0, 0, 0)

\* generate_code_name() results
CodeNames == {"AB-12", "QX-07"}

\* player.json contents: keys may be missing (the constructor's defaults), the
\* named weapon may be missing from the inventory, an item may lack its bonuses
TemplatePlain ==
    [stats |-> [hp |-> 12], inventory |-> <<>>]
TemplateFrail ==
    [name |-> "", stats |-> [hp |-> 5, base_attack |-> 10, defense |-> 0],
     inventory |-> <<[name |-> "stick", attack_bonus |-> 2]>>,
     equipment |-> [weapon |-> JStr("stick")],
     missions |-> ("completed" :> JInt(0))]
TemplateGhost ==
    [name |-> "ZZ-99", stats |-> [hp |-> 12, base_attack |-> 10, defense |-> 5],
     inventory |-> <<Potion>>,
     equipment |-> [weapon |-> JStr("sword")],
     missions |-> EmptyDict]

\* save.json contents: absent, or what an earlier run wrote
SaveArmed ==
    to_dict([name |-> "AB-12", hp |-> 12, base_attack |-> 10, defense |-> 5,
             inventory |-> <<Potion, Stick, Stick>>, weapon |-> 2,
             missions |-> ("completed" :> JInt(0))])
SaveDefeated ==
    to_dict([name |-> "AB-12", hp |-> 0, base_attack |-> 10, defense |-> 5,
             inventory |-> <<Stick>>, weapon |-> 1,
             missions |-> ("completed" :> JInt(1))])

\* the files a run starts with
Configs ==
    { [template |-> TemplatePlain, tutorial |-> Tutorial(TRUE), save |-> NoSave],
      [template |-> TemplateFrail, tutorial |-> Tutorial(FALSE), save |-> NoSave],
      [template |-> TemplateGhost, tutorial |-> Tutorial(TRUE), save |-> SaveArmed],
      [template |-> TemplatePlain, tutorial |-> Tutorial(FALSE), save |-> SaveDefeated] }

\* an actions.json for the whole program
MainCatalog ==
    << Cat("attack", "Attack", <<>>,
           << Opt("Punch", <<>>), Opt("Swing", <<Cond("weapon", JStr("stick"))>>) >>),
       Cat("defend", "Defend", <<>>, <<>>),
       Cat("escape", "Escape", <<>>, <<>>) >>

\* lines input() may return at each prompt; the tutorial's words "교관", "메뉴"
\* and "전투" are held as the elements "gyogwan", "menyu" and "jeontu"
MenuLines == { <<"1">>, <<"2">>, <<" ", "1">>, <<"3">>, <<>> }
TutorialLines ==
    { <<"pickup">>, <<"gyogwan">>, <<"menyu">>, <<"jeontu">>, <<" ", "menyu", " ">>,
      <<"x">> }
EquipLines == { <<"1">>, <<"2">>, <<"0">>, <<"3">>, <<"x">>, <<"sup2">>, <<>> }
OfficeLines == { <<"y">>, <<"Y", " ">>, <<"n">>, <<"y", "y">>, <<>> }
FightLines == { <<"1">>, <<"2">>, <<"3">>, <<"9">>, <<"sup2">> }

\* assignment of the state by a step of main or of a function it calls other
\* than turn_based_combat: the step leaves the program at newpc with player p,
\* having called save_game(p) last if writes
Goto(newpc, p, writes, line, msgs) ==
    /\ pc' = newpc
    /\ player' = p
    /\ save' = IF writes THEN save_game(p) ELSE save
    /\ wrote' = writes
    /\ inp' = line
    /\ msg' = msgs
    /\ UNCHANGED <<Actions, available, category, conditions, result, TUTORIAL>>

\* nothing enters or leaves an encounter
NoFight == UNCHANGED <<enemy, mid, start, defends>>

\* turn_based_combat(player, e) is called on behalf of who
Fight(e, who) ==
    /\ enemy' = e
    /\ start' = [player |-> player, enemy |-> e]
    /\ mid' = [player |-> player, enemy |-> e]
    /\ defends' = 0
    /\ caller' = who

\* main without the tutorial branch
MutTutorialSkipped(new, p) == IF p.hp > 0 THEN "mission_office" ELSE "exit"

\* where main blocks next once start_menu has returned (player, new)
after_start(new, p) ==
    IF new THEN "tut_step0"
    ELSE IF p.hp > 0 THEN "mission_office"
    ELSE "exit"

\* start_menu, and main up to the first input() after it
StartMenu(line, generated) ==
    /\ pc = "start_menu"
    /\ LET choice == strip(line)
           loaded == Player(save, generated)
           created == Player(PLAYER_TEMPLATE, generated)
       IN  IF choice = <<"1">>
           THEN /\ Goto(after_start(TRUE, created), created, TRUE, line,
                        <<"code_name", "awakening">>)
                /\ is_new' = TRUE
           ELSE IF choice = <<"2">> /\ save = NoSave
           THEN /\ Goto("start_menu", player, FALSE, line, <<"no_save">>)
                /\ UNCHANGED is_new
           ELSE IF choice = <<"2">>
           THEN /\ Goto(after_start(FALSE, loaded), loaded, FALSE, line,
                        <<"code_name", "waiting">>)
                /\ is_new' = FALSE
           ELSE /\ Goto("start_menu", player, FALSE, line, <<"player_invalid">>)
                /\ UNCHANGED is_new
    /\ NoFight
    /\ UNCHANGED <<PLAYER_TEMPLATE, caller>>

\* training_session, step 0
TutStep0(line) ==
    /\ pc = "tut_step0"
    /\ LET action == strip(line)
           stick == Item(TUTORIAL.stick_item)
       IN  IF action \in TUTORIAL.actions
           THEN Goto("tut_step1",
                     [player EXCEPT !.inventory = Append(@, stick),
                                    !.weapon = Len(player.inventory) + 1],
                     TRUE, line, <<"success">>)
           ELSE Goto("tut_step0", player, FALSE, line, <<"player_invalid">>)
    /\ NoFight
    /\ UNCHANGED <<PLAYER_TEMPLATE, is_new, caller>>

\* training_session, step 1
TutStep1(line) ==
    /\ pc = "tut_step1"
    /\ LET choice == strip(line)
       IN  IF choice = <<"gyogwan">>
           THEN Goto("tut_step2", player, FALSE, line, <<>>) /\ UNCHANGED caller
           ELSE IF choice = <<"menyu">>
           THEN Goto("equip_menu", player, FALSE, line, <<>>) /\ caller' = "tut_step1"
           ELSE Goto("tut_step1", player, FALSE, line, <<"player_invalid">>)
                /\ UNCHANGED caller
    /\ NoFight
    /\ UNCHANGED <<PLAYER_TEMPLATE, is_new>>

\* equip_menu, and its caller's loop back to the caller's input()
EquipMenu(line) ==
    /\ pc = "equip_menu"
    /\ LET choice == strip(line)
           verdict == selection(choice, Len(player.inventory))
       IN  IF verdict = "ok"
           THEN Goto(caller, [player EXCEPT !.weapon = int_value(choice)], TRUE, line,
                     <<"success">>)
           ELSE IF verdict = "raise"
           THEN Goto("raised", player, FALSE, line, <<>>)
           ELSE Goto(caller, player, FALSE, line, <<"cancel">>)
    /\ NoFight
    /\ UNCHANGED <<PLAYER_TEMPLATE, is_new, caller>>

\* training_session, step 2, up to the call of turn_based_combat
TutStep2(line) ==
    /\ pc = "tut_step2"
    /\ LET interaction == strip(line)
       IN  IF interaction = <<"jeontu">>
           THEN Goto("call", player, FALSE, line, <<>>) /\ Fight(TrainingEnemy, "training")
           ELSE IF interaction = <<"menyu">>
           THEN Goto("equip_menu", player, FALSE, line, <<>>)
                /\ caller' = "tut_step2" /\ NoFight
           ELSE Goto("tut_step2", player, FALSE, line, <<"player_invalid">>)
                /\ UNCHANGED caller /\ NoFight
    /\ UNCHANGED <<PLAYER_TEMPLATE, is_new>>

\* training_session from the return of turn_based_combat on, and main after it
AfterTraining ==
    /\ pc = "returned"
    /\ caller = "training"
    /\ IF player.hp > 0 /\ TUTORIAL.demo
       THEN Goto("tut_demo", player, FALSE, inp, <<>>)
       ELSE IF player.hp <= 0
       THEN Goto("exit", player, TRUE, inp, <<"game_over">>)
       ELSE Goto("mission_office", player, TRUE, inp, <<"waiting">>)
    /\ caller' = "none"
    /\ NoFight
    /\ UNCHANGED <<PLAYER_TEMPLATE, is_new>>

\* mission_office(demo=True), the last line of training_session, main after it
TutDemo(line) ==
    /\ pc = "tut_demo"
    /\ Goto("mission_office", player, TRUE, line, <<"demo_complete", "waiting">>)
    /\ NoFight
    /\ UNCHANGED <<PLAYER_TEMPLATE, is_new, caller>>

\* mission_office() in the loop of main, and the loop's body up to the next
\* input()
MissionOffice(line) ==
    /\ pc = "mission_office"
    /\ LET action == lower(strip(line))
       IN  IF action = <<"y">>
           THEN /\ missions_get_completed(player) < MaxMissions
                /\ Goto("call", player, FALSE, line, <<"accept_text">>)
                /\ Fight(MissionEnemy, "main")
           ELSE /\ Goto("mission_office", player, TRUE, line, <<"decline_text">>)
                /\ NoFight
                /\ UNCHANGED caller
    /\ UNCHANGED <<PLAYER_TEMPLATE, is_new>>

\* the loop's body from the return of turn_based_combat on; player.missions is
\* the template's own missions dict when the player was built from it
AfterMission ==
    /\ pc = "returned"
    /\ caller = "main"
    /\ LET p == [player EXCEPT !.missions = missions_after(player)]
       IN  /\ IF player.hp <= 0
              THEN Goto("exit", p, TRUE, inp, <<"game_over">>)
              ELSE Goto("mission_office", p, TRUE, inp, <<"mission_complete">>)
           /\ PLAYER_TEMPLATE' =
                 IF is_new /\ "missions" \in DOMAIN PLAYER_TEMPLATE
                 THEN [PLAYER_TEMPLATE EXCEPT !.missions = p.missions]
                 ELSE PLAYER_TEMPLATE
    /\ caller' = "none"
    /\ NoFight
    /\ UNCHANGED is_new

InitMain ==
    /\ \E c \in Configs :
          /\ PLAYER_TEMPLATE = c.template
          /\ TUTORIAL = c.tutorial
          /\ save = c.save
    /\ Actions = MainCatalog
    /\ pc = "start_menu"
    /\ player = NoPlayer
    /\ enemy = NoEnemy
    /\ available = <<>>
    /\ category = NoCategory
    /\ inp = <<>>
    /\ msg = <<>>
    /\ mid = [player |-> NoPlayer, enemy |-> NoEnemy]
    /\ start = [player |-> NoPlayer, enemy |-> NoEnemy]
    /\ defends = 0
    /\ conditions = <<>>
    /\ result = TRUE
    /\ is_new = FALSE
    /\ caller = "none"
    /\ wrote = FALSE

NextMain ==
    \/ \E line \in MenuLines : \E generated \in CodeNames : StartMenu(line, generated)
    \/ \E line \in TutorialLines : TutStep0(line)
    \/ \E line \in TutorialLines : TutStep1(line)
    \/ \E line \in EquipLines : EquipMenu(line)
    \/ \E line \in TutorialLines : TutStep2(line)
    \/ AfterTraining
    \/ \E line \in OfficeLines : TutDemo(line)
    \/ \E line \in OfficeLines : MissionOffice(line)
    \/ AfterMission
    \/ Call
    \/ \E line \in FightLines : ChooseCategory(line)
    \/ \E line \in FightLines : ChooseMove(line)
    \/ \E i \in 1..4 : EnemyTurn(i)

SpecMain == InitMain /\ [][NextMain]_vars

------------------------------------------------------------------------------
(* Vocabulary of the combat properties *)

Prompts == {"prompt_main", "prompt_sub"}
Ongoing == Prompts \cup {"enemy_turn"}
HandledKeys == {"attack", "defend", "skill", "item", "escape"}
TurnKeys == {"attack", "defend", "skill", "item"}
EnemyMessages == {"enemy_turn", "enemy_attack", "enemy_defend", "player_defeated"}

said(m) == \E i \in 1..Len(msg) : msg[i] = m
said_next(m) == \E i \in 1..Len(msg') : msg'[i] = m

\* line, once surrounding blanks are dropped, is a decimal integer in [1, n]
DecimalInRange(line, n) ==
    LET s == strip(line)
    IN  /\ s # <<>>
        /\ \A i \in 1..Len(s) : s[i] \in DecimalChars
        /\ int_value(s) \in 1..n

\* what the line read by this step selects at the prompt the program was at:
\* "none" for a line that is no decimal integer in range, "sub" for a
\* category with sub-options, else the key of the category it resolves to
ChosenKey ==
    IF pc = "prompt_main"
    THEN IF DecimalInRange(inp', Len(available))
         THEN LET c == available[int_value(strip(inp'))]
              IN  IF c.options # <<>> THEN "sub" ELSE c.key
         ELSE "none"
    ELSE IF pc = "prompt_sub"
    THEN IF DecimalInRange(inp', Len(category.options)) THEN category.key ELSE "none"
    ELSE "no prompt"

RejectedSelection == ChosenKey = "none" \/ ChosenKey \notin (HandledKeys \cup {"sub", "no prompt"})

EffectiveAttack(p) ==
    p.base_attack + (IF p.weapon = 0 THEN 0 ELSE p.inventory[p.weapon].attack_bonus)

------------------------------------------------------------------------------
(* C1: a rejected selection (a line that is no decimal integer in range, or a
   chosen category whose key is not handled) changes no Player and no Enemy
   field, runs no enemy turn and leaves the encounter at a prompt. *)
C1_RejectedSelectionKeepsEncounter ==
    [][RejectedSelection =>
          /\ player' = player
          /\ enemy' = enemy
          /\ pc' \in Prompts
          /\ \A m \in EnemyMessages : ~said_next(m)]_vars

(* C2: when turn_based_combat returns, player.defense is 5. *)
C2_DefenseResetOnReturn == pc = "returned" => player.defense = 5

C2_Witness ==
    /\ pc = "returned"
    /\ defends >= 2
    /\ start.player.defense # 5
    /\ mid.player.defense # 5

(* C3: if enemy.hp <= 0 right after the player's action, the encounter ends in
   EnemyDefeated within the same step, with no enemy turn: player.hp and the
   enemy keep the values they had right after the player's action. *)
C3_EnemyDefeatedSkipsEnemyTurn ==
    [][(ChosenKey \in TurnKeys /\ mid'.enemy.hp <= 0) =>
          /\ pc' = "returned"
          /\ said_next("enemy_defeated")
          /\ \A m \in EnemyMessages : ~said_next(m)
          /\ player'.hp = mid'.player.hp
          /\ enemy' = mid'.enemy]_vars

C3_Witness ==
    /\ pc = "returned"
    /\ enemy.hp <= 0
    /\ msg = <<"player_attack", "enemy_defeated">>
    /\ player.hp = start.player.hp

(* C4: a selection that resolves to escape ends the encounter at once: no enemy
   turn, and player.hp and the enemy unchanged. *)
C4_EscapeEndsEncounter ==
    [][ChosenKey = "escape" =>
          /\ pc' = "returned"
          /\ msg' = <<"player_escape">>
          /\ player'.hp = player.hp
          /\ enemy' = enemy]_vars

C4_Witness ==
    /\ pc = "returned"
    /\ msg = <<"player_escape">>
    /\ player.hp > 0
    /\ enemy.hp > 0
    /\ enemy.hp < start.enemy.hp

(* C5: an attack move lowers enemy.hp by max(effectiveAttack - enemy.defense, 0)
   with the enemy's current defense, never raises it, and changes nothing else
   (the defense reset of a return apart). *)
C5_AttackDamage ==
    [][ChosenKey = "attack" =>
          LET dmg == IF EffectiveAttack(player) - enemy.defense > 0
                     THEN EffectiveAttack(player) - enemy.defense ELSE 0
          IN  /\ enemy' = [enemy EXCEPT !.hp = enemy.hp - dmg]
              /\ enemy'.hp <= enemy.hp
              /\ mid' = [player |-> player, enemy |-> enemy']
              /\ player' = IF pc' = "returned" THEN [player EXCEPT !.defense = 5]
                           ELSE player]_vars

\* an attack that the enemy's raised defense absorbs whole
C5_Witness ==
    /\ said("player_attack")
    /\ enemy.defense > start.enemy.defense
    /\ enemy.defense >= EffectiveAttack(player)
    /\ enemy.hp < start.enemy.hp

(* C6: after a player's move that consumed a turn and left the enemy alive,
   exactly one enemy action runs before the next prompt: an attack that lowers
   player.hp by max(enemy.attack - player.defense, 0) with the current defense,
   or a defense that raises enemy.defense by 3, nothing else changing; if
   player.hp <= 0 afterwards the encounter ends in PlayerDefeated. *)
C6_OneEnemyActionPerRound ==
    [][/\ (ChosenKey \in TurnKeys /\ mid'.enemy.hp > 0) => pc' = "enemy_turn"
       /\ pc = "enemy_turn" =>
             LET dmg == IF enemy.attack - player.defense > 0
                        THEN enemy.attack - player.defense ELSE 0
             IN  /\ \/ /\ mid'.player = [player EXCEPT !.hp = player.hp - dmg]
                       /\ mid'.enemy = enemy
                    \/ /\ mid'.player = player
                       /\ mid'.enemy = [enemy EXCEPT !.defense = enemy.defense + 3]
                 /\ enemy' = mid'.enemy
                 /\ IF mid'.player.hp <= 0
                    THEN /\ pc' = "returned"
                         /\ said_next("player_defeated")
                         /\ player' = [mid'.player EXCEPT !.defense = 5]
                    ELSE /\ pc' = "prompt_main"
                         /\ player' = mid'.player]_vars

\* an enemy attack against a defense the player has stacked
C6_Witness ==
    /\ pc = "prompt_main"
    /\ msg = <<"enemy_attack">>
    /\ defends >= 1
    /\ player.defense > start.player.defense
    /\ player.hp < start.player.hp

(* C7: each defend move adds exactly 5 to player.defense and the additions
   stack: while the encounter is ongoing, after k defend moves player.defense
   is its value at the start plus 5*k; the move changes no hp and no Enemy
   field. *)
C7_DefendStacks ==
    /\ [](pc \in Ongoing => player.defense = start.player.defense + 5 * defends)
    /\ [][ChosenKey = "defend" =>
              /\ defends' = defends + 1
              /\ player' = [player EXCEPT !.defense = player.defense + 5]
              /\ mid'.player = player'
              /\ enemy' = enemy
              /\ mid'.enemy = enemy]_vars

C7_Witness ==
    /\ pc = "prompt_main"
    /\ defends = 2
    /\ player.defense = start.player.defense + 10

------------------------------------------------------------------------------
(* Vocabulary of the evaluator and filter properties *)

RecognizedKeys == {"weapon", "has_item", "mission"}

\* one condition as section 4.1 reads it
Passes(p, c) ==
    IF c.key = "weapon"
    THEN IF c.value = JTrue THEN p.weapon # 0
         ELSE p.weapon # 0 /\ p.inventory[p.weapon].name = c.value.s
    ELSE IF c.key = "has_item"
    THEN c.value.s \in { p.inventory[i].name : i \in 1..Len(p.inventory) }
    ELSE IF "current" \in DOMAIN p.missions
         THEN p.missions["current"] = c.value
         ELSE c.value = JNull

\* the value shapes the property speaks of: weapon true or a string,
\* has_item a string, mission any value
Covered(c) ==
    /\ c.key \in RecognizedKeys
    /\ c.key = "weapon" => (c.value = JTrue \/ c.value.t = "str")
    /\ c.key = "has_item" => c.value.t = "str"

\* positions of the catalog the filter is to keep
PassingOptions(p, cat) ==
    SelectSeq(cat.options, LAMBDA o : check_conditions(p, o.conditions))

KeptPositions ==
    { i \in 1..Len(Actions) :
        /\ check_conditions(player, Actions[i].conditions)
        /\ \/ Actions[i].options = <<>>
           \/ \E j \in 1..Len(Actions[i].options) :
                 check_conditions(player, Actions[i].options[j].conditions) }

\* the k-th kept position in catalog order
KeptAt(k) ==
    CHOOSE i \in KeptPositions : Cardinality({ j \in KeptPositions : j <= i }) = k

(* C8: get_available_actions returns, in catalog order, exactly the categories
   whose own conditions pass and that declare no options or have a passing
   option, each carrying exactly its passing options in their order. *)
C8_FilterIsReference ==
    pc = "filter_done" =>
        /\ Len(available) = Cardinality(KeptPositions)
        /\ \A k \in 1..Len(available) :
              LET cat == Actions[KeptAt(k)]
              IN  /\ available[k].key = cat.key
                  /\ available[k].name = cat.name
                  /\ available[k].conditions = cat.conditions
                  /\ available[k].options = PassingOptions(player, cat)

\* the first category loses all its options and is dropped, the second one
\* keeps one option of two
C8_Witness ==
    /\ pc = "filter_done"
    /\ Len(Actions) = 2
    /\ Actions[1].conditions = <<>>
    /\ Len(Actions[1].options) = 2
    /\ Len(Actions[2].options) = 2
    /\ Len(available) = 1
    /\ available[1].name = "c2"
    /\ Len(available[1].options) = 1
    /\ available[1].options[1].name = "o2"

(* C9: a condition set holding a key other than weapon, has_item and mission
   makes check_conditions return false, whatever the other keys and the order. *)
C9_UnknownKeyFailsClosed ==
    (pc = "cond_done" /\ \E i \in 1..Len(conditions) :
                             conditions[i].key \notin RecognizedKeys)
        => result = FALSE

\* the unknown key comes last, after keys that pass
C9_Witness ==
    /\ pc = "cond_done"
    /\ Len(conditions) = 3
    /\ conditions[3].key = "level"
    /\ Passes(player, conditions[1])
    /\ Passes(player, conditions[2])
    /\ result = FALSE

(* C10: on recognized keys check_conditions is the conjunction of the keys'
   tests: weapon=true iff a weapon is equipped, weapon=<string> iff the
   equipped weapon has that name, has_item=<string> iff an inventory item has
   that name, mission=<value> iff missions["current"] equals it. *)
C10_RecognizedKeysConjunction ==
    (pc = "cond_done" /\ \A i \in 1..Len(conditions) : Covered(conditions[i]))
        => (result = TRUE <=> \A i \in 1..Len(conditions) : Passes(player, conditions[i]))

\* three recognized keys, the first a weapon name, that all pass
C10_Witness ==
    /\ pc = "cond_done"
    /\ Len(conditions) = 3
    /\ \A i \in 1..3 : Covered(conditions[i])
    /\ conditions[1].key = "weapon" /\ conditions[1].value.t = "str"
    /\ result = TRUE

------------------------------------------------------------------------------
(* C15: after a line that is no decimal integer in range and that the program
   refuses with the player_invalid message, the same decision point is offered
   again: the category prompt after a refused category line, the sub-option
   prompt of the same category after a refused sub-option line. *)
C15_SameDecisionPointReoffered ==
    [][(/\ pc \in {"prompt_main", "prompt_sub"}
        /\ ~DecimalInRange(inp', IF pc = "prompt_main" THEN Len(available)
                                 ELSE Len(category.options))
        /\ said_next("player_invalid"))
       => /\ pc' = pc
          /\ pc = "prompt_sub" => category' = category]_vars

(* C17: a skill or item move changes no Player and no Enemy field; the round
   still consumes the turn, so the enemy turn comes next. *)
C17_SkillItemNoEffect ==
    [][(ChosenKey = "skill" \/ ChosenKey = "item") =>
          /\ player' = player
          /\ enemy' = enemy
          /\ mid' = [player |-> player, enemy |-> enemy]
          /\ defends' = defends
          /\ pc' = "enemy_turn"
          /\ (said_next("player_skill") \/ said_next("player_item"))]_vars

\* a skill move made after a defend move, the enemy turn pending
C17_Witness ==
    /\ pc = "enemy_turn"
    /\ said("player_skill")
    /\ defends >= 1
    /\ enemy.hp < start.enemy.hp

(* C19: an encounter entered with both hp > 0 returns in exactly one outcome:
   enemy.hp <= 0, or player.hp <= 0, or escape chosen with both hp > 0; the two
   hp are never both <= 0, and it returns with both > 0 only on escape. *)
C19_ExactlyOneOutcome ==
    (pc = "returned" /\ start.player.hp > 0 /\ start.enemy.hp > 0) =>
        LET EnemyDefeated == enemy.hp <= 0
            PlayerDefeated == player.hp <= 0
            Escaped == said("player_escape") /\ player.hp > 0 /\ enemy.hp > 0
        IN  /\ EnemyDefeated \/ PlayerDefeated \/ Escaped
            /\ ~(EnemyDefeated /\ PlayerDefeated)
            /\ said("player_escape") => Escaped
            /\ EnemyDefeated <=> said("enemy_defeated")
            /\ PlayerDefeated <=> said("player_defeated")

\* the player went down in the round after the enemy was brought to its last hp
C19_Witness ==
    /\ pc = "returned"
    /\ start.player.hp > 0
    /\ player.hp <= 0
    /\ enemy.hp > 0
    /\ enemy.hp < start.enemy.hp
    /\ said("player_defeated")

(* C13: no save record is written while the encounter stays Ongoing, so none
   holds a defense raised by defend moves; the record written when the
   encounter returns is the player's and has defense = 5. *)
C13_NoSaveWithStackedDefense ==
    [][/\ pc' \in Ongoing => (~wrote' /\ save' = save)
       /\ (pc # "returned" /\ pc' = "returned") =>
              /\ wrote'
              /\ save' = to_dict(player')
              /\ save'.stats.defense = 5]_vars

\* the encounter returned after defend moves had raised the defense above 5
C13_Witness ==
    /\ pc = "returned"
    /\ wrote
    /\ defends >= 1
    /\ mid.player.defense > 5
    /\ save.stats.defense = 5

(* C18: a call of get_available_actions (and the check_conditions calls it
   makes) changes no Player field and leaves the action catalog as it was, and
   a second call on the same player returns the same list. *)
C18_FilterHasNoSideEffect ==
    [][(pc = "filter_call" \/ pc = "filter_done") =>
          /\ player' = player
          /\ Actions' = Actions
          /\ available' = filter_from(player, Actions, 1)
          /\ pc = "filter_done" => available' = available]_vars

\* a second call returned, after a first call that dropped an option and kept
\* the category
C18_Witness ==
    /\ pc = "filter_again"
    /\ \E i \in 1..Len(available) : \E j \in 1..Len(Actions) :
          /\ available[i].name = Actions[j].name
          /\ available[i].options # <<>>
          /\ Len(available[i].options) < Len(Actions[j].options)

------------------------------------------------------------------------------
(* Vocabulary of the properties of the whole program *)

\* the weapon a record names, and the names of the items it holds
RecordWeapon(rec) ==
    IF "equipment" \in DOMAIN rec /\ "weapon" \in DOMAIN rec.equipment
    THEN rec.equipment.weapon
    ELSE JNull
RecordNames(rec) ==
    IF "inventory" \in DOMAIN rec
    THEN { JStr(rec.inventory[i].name) : i \in 1..Len(rec.inventory) }
    ELSE {}

\* the weapon is absent, or an item of the inventory
WeaponResolves(p) ==
    \/ p.weapon = NoWeapon
    \/ /\ p.weapon \in 1..Len(p.inventory)
       /\ \E i \in 1..Len(p.inventory) : p.inventory[i].name = weapon_item(p).name

\* the start menu hands a Player to main in this step
Constructed == pc = "start_menu" /\ pc' # "start_menu"

(* C11: in every state the equipped weapon is absent or an item of the
   inventory, so its name is the name of an inventory item; a Player built
   from a record that names a weapon its inventory does not hold has no
   weapon. *)
C11_WeaponIsInInventory ==
    [][/\ WeaponResolves(player')
       /\ Constructed =>
             LET rec == IF is_new' THEN PLAYER_TEMPLATE ELSE save
             IN  RecordWeapon(rec) \notin RecordNames(rec) => player'.weapon = NoWeapon]_vars

\* a new Player built from a template that names a sword it does not hold
C11_Witness ==
    /\ pc = "tut_step0"
    /\ is_new
    /\ RecordWeapon(PLAYER_TEMPLATE) = JStr("sword")
    /\ JStr("sword") \notin RecordNames(PLAYER_TEMPLATE)
    /\ player.inventory # <<>>
    /\ player.weapon = NoWeapon

(* C12 as stated: the save record is written after the resolution of each
   combat round that changed the player, so that at the next prompt it holds
   the player's state. *)
C12_SavedAfterEveryRound ==
    [][(pc = "enemy_turn" /\ pc' = "prompt_main" /\ player' # player) =>
          (wrote' /\ save' = to_dict(player'))]_vars

(* C12, amended: the save record is written after each successful equip, when
   each encounter returns (not after each round) and after each mission
   outcome, so that outside an encounter it holds the player's state. *)
C12_SavedOutsideEncounter ==
    [][/\ (pc' \notin Ongoing \cup {"start_menu", "raised"}) => save' = to_dict(player')
       /\ (pc = "equip_menu" /\ player'.weapon # player.weapon) => wrote'
       /\ (pc # "returned" /\ pc' = "returned") => wrote'
       /\ (pc = "returned" /\ caller = "main") => wrote'
       /\ (pc \in Ongoing /\ pc' \in Ongoing) => ~wrote']_vars

\* a mission's encounter cost the player hp, and its outcome has been saved
C12_Witness ==
    /\ pc \in {"mission_office", "exit"}
    /\ start.enemy = MissionEnemy
    /\ player.hp < start.player.hp
    /\ wrote
    /\ save = to_dict(player)

\* Player(p.to_dict()) and p agree in every field the save record carries
RoundTrip(p) ==
    \A generated \in CodeNames :
        LET q == Player(save_game(p), generated)
        IN  /\ q.name = p.name
            /\ q.hp = p.hp
            /\ q.base_attack = p.base_attack
            /\ q.defense = p.defense
            /\ q.inventory = p.inventory
            /\ has_weapon(q) <=> has_weapon(p)
            /\ has_weapon(p) => weapon_item(q).name = weapon_item(p).name
            /\ q.missions = p.missions

(* C14: for every Player p outside an encounter, Player(p.to_dict()) equals p
   in name, hp, base attack, defense, the inventory in order, the equipped
   weapon's name or its absence, and the missions map. *)
C14_SaveLoadRoundTrip ==
    (pc \notin Ongoing \cup {"start_menu"}) => RoundTrip(player)

\* the second of two items named "stick" is equipped; the first has another bonus
C14_Witness ==
    /\ pc \notin Ongoing \cup {"start_menu"}
    /\ Len(player.inventory) = 2
    /\ player.inventory[1].name = player.inventory[2].name
    /\ player.inventory[1] # player.inventory[2]
    /\ player.weapon = 2
    /\ Player(to_dict(player), "AB-12").weapon = 1

\* the positions of training_session, in the order the script runs them
TutorialSteps == {"tut_step0", "tut_step1", "tut_step2", "equip_menu", "tut_demo"}

(* C16: "new game" builds the Player from the template, saves it and runs the
   tutorial (pickup, instructor, training fight, demo) before the first
   mission-office prompt; "load game" with a save goes to the mission loop
   with no tutorial step; "load game" without a save reports it and offers
   the start menu again, with no Player and no save written. *)
C16_TopLevelOrdering ==
    [][/\ (pc = "start_menu" /\ strip(inp') = <<"1">>) =>
             /\ \E generated \in CodeNames : player' = Player(PLAYER_TEMPLATE, generated)
             /\ wrote' /\ save' = to_dict(player')
             /\ is_new' /\ pc' = "tut_step0"
       /\ (pc = "start_menu" /\ strip(inp') = <<"2">> /\ save # NoSave) =>
             /\ \E generated \in CodeNames : player' = Player(save, generated)
             /\ ~wrote' /\ save' = save
             /\ ~is_new'
             /\ pc' = IF player'.hp > 0 THEN "mission_office" ELSE "exit"
       /\ (pc = "start_menu" /\ strip(inp') = <<"2">> /\ save = NoSave) =>
             /\ pc' = "start_menu" /\ msg' = <<"no_save">>
             /\ player' = NoPlayer
             /\ ~wrote' /\ save' = NoSave
       /\ pc = "tut_step0" => pc' \in {"tut_step0", "tut_step1"}
       /\ pc = "tut_step1" => pc' \in {"tut_step1", "equip_menu", "tut_step2"}
       /\ pc = "tut_step2" => pc' \in {"tut_step2", "equip_menu", "call"}
       /\ (pc = "equip_menu" /\ pc' # "raised") => pc' = caller /\ caller \in TutorialSteps
       /\ (pc' = "mission_office" /\ pc # "mission_office") =>
             IF is_new'
             THEN \/ pc = "tut_demo"
                  \/ pc = "returned" /\ start.enemy = TrainingEnemy /\ ~TUTORIAL.demo
                  \/ pc = "returned" /\ start.enemy = MissionEnemy
             ELSE pc \in {"start_menu", "returned"}
       /\ ~is_new' => pc' \notin TutorialSteps /\ start'.enemy # TrainingEnemy]_vars

\* the first mission-office prompt of a new game, the tutorial behind it
C16_Witness ==
    /\ pc = "mission_office"
    /\ is_new
    /\ start.enemy = TrainingEnemy
    /\ msg = <<"demo_complete", "waiting">>
    /\ Len(player.inventory) >= 1

(* C20: player.missions["completed"] grows by exactly 1 when an accepted
   mission's encounter returns with player.hp > 0, whether the enemy is
   defeated or the player escaped; it is unchanged when the mission is
   declined, when the encounter returns with player.hp <= 0, and during the
   encounter; after a defeat the program ends: no mission is offered and no
   encounter starts. *)
C20_CompletedCounter ==
    [][/\ (pc = "returned" /\ caller = "main" /\ player.hp > 0) =>
             /\ missions_get_completed(player') = missions_get_completed(player) + 1
             /\ pc' = "mission_office"
       /\ (pc = "returned" /\ caller = "main" /\ player.hp <= 0) =>
             /\ player'.missions = player.missions
             /\ pc' = "exit"
       /\ (pc # "start_menu" /\ ~(pc = "returned" /\ caller = "main")) =>
             player'.missions = player.missions
       /\ pc = "exit" => pc' = "exit"
       /\ pc' = "call" => player.hp > 0]_vars

\* the player escaped from the mission's enemy and the mission was counted
C20_Witness ==
    /\ pc = "mission_office"
    /\ msg = <<"mission_complete">>
    /\ start.enemy = MissionEnemy
    /\ enemy.hp > 0
    /\ player.hp > 0
    /\ missions_get_completed(player) = missions_get_completed(start.player) + 1

====
